---- MODULE Spec2Model ----
(***************************************************************************)
(* Model of dirt_tencand.py: the module-level table df and the function    *)
(* tencand(idx, ..., top_n), which scores every row of df against the      *)
(* target row idx, removes the self-pair, sorts by ndiv and returns the    *)
(* first top_n rows.                                                       *)
(*                                                                         *)
(* Numbers.  A cell of the table is an integer number of EPS units, so     *)
(* EPS itself is 1.  A float is a record [k, n, d]: k = "fin" is the exact *)
(* fraction n/d (d > 0, lowest terms), k = "pinf", "ninf", "nan" are the   *)
(* IEEE specials.  A finite result whose magnitude exceeds FloatMax        *)
(* overflows to an infinity, as a double does beyond its largest value;    *)
(* rounding and underflow are not modelled.  Division by zero follows      *)
(* IEEE: x / 0 is an infinity of the sign of x, and 0 / 0 is NaN.          *)
(*                                                                         *)
(* Strings.  A Geneid is a sequence of one-character strings; formatting   *)
(* "target/candidate" is concatenation and str.endswith is a suffix test.  *)
(***************************************************************************)
EXTENDS Integers, Sequences, FiniteSets

\* df: the loaded table.  pc: "main" while the caller is between calls,
\* "returned" and "raised" right after a call of tencand.  idx, top_n: the
\* arguments of that call.  mdf: its frame once the self-pair is removed.
\* ret: the frame it returned.  exc: the exception it raised.
VARIABLES df, pc, exc, idx, top_n, mdf, ret

vars == <<df, pc, exc, idx, top_n, mdf, ret>>

(* ------------------------------ bounds -------------------------------- *)

MaxRows == 3

MaxTopN == 3

FloatMax == 4

(* ----------------------------- constants ------------------------------ *)

EPS == 1

Slash == "/"

\* The control columns control_start..control_end; the full range
\* all_start..all_end is taken to be the same span.
ControlColumns == <<"C1", "C2">>

NCtl == Len(ControlColumns)

\* Cell values, in EPS units.
Vals == {-3, 0, 3}

\* Cell values around -EPS, where x + EPS is zero.
ZeroVals == {-1, 0}

\* Identifiers of the tables whose identifiers vary: plain ones, ones with a
\* slash inside, and ones made of slashes.
GeneIds ==
    {<<"a">>, <<"b">>, <<"a", "/", "b">>, <<"/", "b">>, <<"/">>, <<"/", "/">>}

(* ------------------------- float arithmetic --------------------------- *)

Abs(x) == IF x < 0 THEN -x ELSE x

Sign(x) == IF x < 0 THEN -1 ELSE IF x > 0 THEN 1 ELSE 0

RECURSIVE GCD(_, _)
GCD(a, b) == IF b = 0 THEN a ELSE GCD(b, a % b)

NaN == [k |-> "nan", n |-> 0, d |-> 1]

PInf == [k |-> "pinf", n |-> 0, d |-> 1]

NInf == [k |-> "ninf", n |-> 0, d |-> 1]

IsNaN(a) == a.k = "nan"

IsInf(a) == a.k \in {"pinf", "ninf"}

\* The double nearest to n/d (d # 0): the fraction itself, or an infinity once
\* its magnitude passes FloatMax.
Fl(n, d) ==
    LET s == Sign(n) * Sign(d)
        an == Abs(n)
        ad == Abs(d)
        g == GCD(an, ad)
    IN  IF an > FloatMax * ad
        THEN (IF s > 0 THEN PInf ELSE NInf)
        ELSE [k |-> "fin", n |-> s * (an \div g), d |-> ad \div g]

FSign(a) ==
    CASE a.k = "pinf" -> 1
      [] a.k = "ninf" -> -1
      [] a.k = "fin" -> Sign(a.n)
      [] OTHER -> 0

FInfOf(s) == IF s > 0 THEN PInf ELSE NInf

FAdd(a, b) ==
    IF IsNaN(a) \/ IsNaN(b) THEN NaN
    ELSE IF IsInf(a) /\ IsInf(b) THEN (IF a.k = b.k THEN a ELSE NaN)
    ELSE IF IsInf(a) THEN a
    ELSE IF IsInf(b) THEN b
    ELSE Fl(a.n * b.d + b.n * a.d, a.d * b.d)

FNeg(a) ==
    CASE a.k = "pinf" -> NInf
      [] a.k = "ninf" -> PInf
      [] a.k = "fin" -> [k |-> "fin", n |-> -a.n, d |-> a.d]
      [] OTHER -> NaN

FSub(a, b) == FAdd(a, FNeg(b))

FMul(a, b) ==
    IF IsNaN(a) \/ IsNaN(b) THEN NaN
    ELSE IF IsInf(a) \/ IsInf(b)
         THEN (IF FSign(a) * FSign(b) = 0 THEN NaN
               ELSE FInfOf(FSign(a) * FSign(b)))
    ELSE Fl(a.n * b.n, a.d * b.d)

\* a / b of two doubles; a zero divisor is +0.0.
FDiv(a, b) ==
    IF IsNaN(a) \/ IsNaN(b) THEN NaN
    ELSE IF IsInf(a) /\ IsInf(b) THEN NaN
    ELSE IF IsInf(a) THEN FInfOf(FSign(a) * (IF FSign(b) < 0 THEN -1 ELSE 1))
    ELSE IF IsInf(b) THEN Fl(0, 1)
    ELSE IF b.n = 0 THEN (IF a.n = 0 THEN NaN ELSE FInfOf(Sign(a.n)))
    ELSE Fl(a.n * b.d, a.d * b.n)

(* ------------------------------ scoring ------------------------------- *)

\* A table cell as a double.
Cell(v) == Fl(v, 1)

RECURSIVE FSum(_)
FSum(s) == IF s = <<>> THEN Fl(0, 1) ELSE FAdd(FSum(SubSeq(s, 1, Len(s) - 1)), s[Len(s)])

\* target / (x + EPS), element by element.
Ratios(target, x) ==
    [i \in 1..Len(x) |-> FDiv(Cell(target[i]), FAdd(Cell(x[i]), Cell(EPS)))]

\* The entries a pandas reduction keeps (skipna=True).
NotNaN(r) == SelectSeq(r, LAMBDA v : ~IsNaN(v))

\* np.mean(ratios), which is Series.mean: the sum of the entries that are not
\* NaN over their count, NaN when there is none.
Mean(r) ==
    LET v == NotNaN(r)
    IN  IF Len(v) = 0 THEN NaN ELSE FDiv(FSum(v), Cell(Len(v)))

\* The square of np.std(ratios, ddof=1), which is Series.std: over the
\* entries that are not NaN, the summed squared deviations from their mean
\* over count - ddof, NaN when the count does not exceed ddof.
Var(r, ddof) ==
    LET v == NotNaN(r)
        avg == Mean(r)
        sqr == [i \in 1..Len(v) |-> FMul(FSub(avg, v[i]), FSub(avg, v[i]))]
    IN  IF Len(v) <= ddof THEN NaN ELSE FDiv(FSum(sqr), Cell(Len(v) - ddof))

\* A score is [k, s, n, d]: for k = "fin" the number s * sqrt(n/d) with
\* s in {-1, 0, 1} (s = 0 exactly when n = 0), otherwise an IEEE special.
Score(k, s, n, d) == [k |-> k, s |-> s, n |-> n, d |-> d]

ScoreNaN == Score("nan", 0, 0, 1)

ScorePInf == Score("pinf", 1, 0, 1)

ScoreNInf == Score("ninf", -1, 0, 1)

\* sqrt(var) / mean.
StdOverMean(var, mean) ==
    IF IsNaN(var) \/ IsNaN(mean) THEN ScoreNaN
    ELSE IF IsInf(var)
         THEN (IF IsInf(mean) THEN ScoreNaN
               ELSE IF FSign(mean) < 0 THEN ScoreNInf ELSE ScorePInf)
    ELSE IF IsInf(mean) THEN Score("fin", 0, 0, 1)
    ELSE IF mean.n = 0 THEN (IF var.n = 0 THEN ScoreNaN ELSE ScorePInf)
    ELSE LET qn == var.n * mean.d * mean.d
             qd == var.d * mean.n * mean.n
             g == GCD(qn, qd)
         IN  IF qn = 0 THEN Score("fin", 0, 0, 1)
             ELSE IF qn > FloatMax * FloatMax * qd
                  THEN (IF mean.n < 0 THEN ScoreNInf ELSE ScorePInf)
             ELSE Score("fin", Sign(mean.n), qn \div g, qd \div g)

\* ndiv(x) for the target's control values.
ndiv(target_cdata, x) ==
    LET ratios == Ratios(target_cdata, x)
    IN  StdOverMean(Var(ratios, 1), Mean(ratios))

\* ratio_all(x) for the target's values over the full range.
ratio_all(target_all_data, x) == Ratios(target_all_data, x)

\* Float order on scores that are not NaN: a < b.
ScoreRank(a) == CASE a.k = "ninf" -> 0 [] a.k = "fin" -> 1 [] OTHER -> 2

ScoreLess(a, b) ==
    IF ScoreRank(a) # ScoreRank(b) THEN ScoreRank(a) < ScoreRank(b)
    ELSE IF a.k # "fin" THEN FALSE
    ELSE IF a.s # b.s THEN a.s < b.s
    ELSE IF a.s = 1 THEN a.n * b.d < b.n * a.d
    ELSE IF a.s = -1 THEN a.n * b.d > b.n * a.d
    ELSE FALSE

(* ------------------------------ strings ------------------------------- *)

\* f"{target_geneid}/{x['Geneid']}"
id_pair(target_geneid, geneid) == target_geneid \o <<Slash>> \o geneid

\* str.endswith
endswith(s, suffix) ==
    /\ Len(suffix) <= Len(s)
    /\ SubSeq(s, Len(s) - Len(suffix) + 1, Len(s)) = suffix

(* ------------------------------- table -------------------------------- *)

Min(a, b) == IF a < b THEN a ELSE b

SeqsUpTo(S, n) == UNION {[1..k -> S] : k \in 1..n}

\* A row is its Geneid and its values in the control columns.  The tables
\* whose numbers vary carry the distinct identifiers "g", "gg", ...
PlainId(p) == [j \in 1..p |-> "g"]

ValueTables(V) ==
    UNION {{[p \in 1..k |-> [Geneid |-> PlainId(p), C |-> c[p]]] :
               c \in [1..k -> [1..NCtl -> V]]} : k \in 1..MaxRows}

\* The tables whose identifiers vary (duplicates included) carry the same
\* numbers in every row.
IdRows == [Geneid : GeneIds, C : {[j \in 1..NCtl |-> IF j = 1 THEN 3 ELSE 0]}]

\* The tables pd.read_csv can load: non-empty, with the default RangeIndex
\* (the row at position p has label p - 1).
Tables ==
    ValueTables(Vals) \cup ValueTables(ZeroVals) \cup SeqsUpTo(IdRows, MaxRows)

\* Positional lookup, where a negative index counts from the end.
iloc(d, i) ==
    IF i \in 0..(Len(d) - 1) THEN i + 1
    ELSE IF i \in (0 - Len(d))..(0 - 1) THEN Len(d) + i + 1
    ELSE 0

\* Position of the row labelled i, 0 when the label is absent (df.at and
\* df.loc look a label up and raise KeyError for an absent one).
loc(d, i) == IF i \in 0..(Len(d) - 1) THEN i + 1 ELSE 0

(* ------------------------------ tencand ------------------------------- *)

\* mdf as built from df.apply(id_pair), df.apply(ndiv) and df.apply(ratio_all):
\* one entry per row of the table, the target's own row included.
build(d, i) ==
    LET t == d[loc(d, i)]
    IN  [p \in 1..Len(d) |->
            [row |-> p - 1,
             ID |-> id_pair(t.Geneid, d[p].Geneid),
             ndiv |-> ndiv(t.C, d[p].C),
             ratio |-> ratio_all(t.C, d[p].C)]]

\* mdf[~mdf["ID"].str.endswith(f"/{target_geneid}")]
IsSelfPair(e, target_geneid) == endswith(e.ID, <<Slash>> \o target_geneid)

\* Removing one row only: the first self-pair.
remove_first_self_pair(frame, target_geneid) ==
    LET F == {j \in 1..Len(frame) : IsSelfPair(frame[j], target_geneid)}
        first == CHOOSE j \in F : \A q \in F : j <= q
    IN  IF F = {} THEN frame
        ELSE [j \in 1..(Len(frame) - 1) |-> IF j < first THEN frame[j] ELSE frame[j + 1]]

remove_self_pair(frame, target_geneid) ==
    SelectSeq(frame, LAMBDA e : ~IsSelfPair(e, target_geneid))

\* Descending order.
MayPrecedeDescending(a, b) ==
    IF a.ndiv.k = "nan" THEN b.ndiv.k = "nan" /\ a.row < b.row
    ELSE b.ndiv.k = "nan" \/ ~ScoreLess(a.ndiv, b.ndiv)

\* Ascending order with the NaN scores first (na_position="first").
MayPrecedeNaNFirst(a, b) ==
    IF b.ndiv.k = "nan" THEN a.ndiv.k = "nan" /\ a.row < b.row
    ELSE a.ndiv.k = "nan" \/ ~ScoreLess(b.ndiv, a.ndiv)

\* The order sort_values(by="ndiv", ascending=True) may leave two entries in:
\* a before b.  NaN scores go last, in their original order; the others are
\* ordered by value, and equal values in any order (the default sort kind,
\* quicksort, is not stable).
MayPrecede(a, b) ==
    IF a.ndiv.k = "nan" THEN b.ndiv.k = "nan" /\ a.row < b.row
    ELSE b.ndiv.k = "nan" \/ ~ScoreLess(b.ndiv, a.ndiv)

\* Every result sort_values may produce.
sort_values(m) ==
    IF m = <<>> THEN {<<>>}
    ELSE LET I == 1..Len(m)
             P == {p \in [I -> I] :
                     /\ \A j, k \in I : j # k => p[j] # p[k]
                     /\ \A j, k \in I : j < k => MayPrecede(m[p[j]], m[p[k]])}
         IN  {[j \in I |-> m[p[j]]] : p \in P}

\* One entry too many.
head_inclusive(s, n) == SubSeq(s, 1, Min(n + 1, Len(s)))

\* One entry too few.
head_exclusive(s, n) == SubSeq(s, 1, Min(n - 1, Len(s)))

\* The last n entries.
tail(s, n) == SubSeq(s, Len(s) - Min(n, Len(s)) + 1, Len(s))

\* DataFrame.head(n) for n > 0.
head(s, n) == SubSeq(s, 1, Min(n, Len(s)))

\* mdf of tencand(i) on table d once the self-pair is removed.
candidates(d, i) == remove_self_pair(build(d, i), d[loc(d, i)].Geneid)

(* ------------------------------ actions ------------------------------- *)

Indexes == (0 - 1)..MaxRows

TopNs == 1..MaxTopN

\* After loading: the caller (the comprehension of __main__) is about to call.
Init ==
    /\ df \in Tables
    /\ pc = "main"
    /\ exc = "none"
    /\ idx = 0
    /\ top_n = 1
    /\ mdf = <<>>
    /\ ret = <<>>

\* A call that filters the table itself instead of a copy.
TencandReturnInPlace(i) ==
    /\ pc = "main"
    /\ loc(df, i) # 0
    /\ LET m == candidates(df, i)
       IN  /\ mdf' = m
           /\ df' = [j \in 1..Len(m) |-> df[m[j].row + 1]]
           /\ \E n \in TopNs : \E s \in sort_values(m) :
                  /\ top_n' = n
                  /\ ret' = head(s, n)
    /\ pc' = "returned"
    /\ exc' = "none"
    /\ idx' = i

\* A call tencand(i, top_n = n) that returns.
TencandReturn(i) ==
    /\ pc = "main"
    /\ loc(df, i) # 0
    /\ LET m == candidates(df, i)
           sorted == sort_values(m)
       IN  /\ mdf' = m
           /\ \E n \in TopNs : \E s \in sorted :
                  /\ top_n' = n
                  /\ ret' = head(s, n)
    /\ pc' = "returned"
    /\ exc' = "none"
    /\ idx' = i
    /\ UNCHANGED df

\* A call tencand(i, top_n = n) whose row label is absent: df.at raises,
\* nothing catches the exception and the run ends.
TencandRaise(i) ==
    /\ pc = "main"
    /\ loc(df, i) = 0
    /\ \E n \in TopNs : top_n' = n
    /\ pc' = "raised"
    /\ exc' = "KeyError"
    /\ mdf' = <<>>
    /\ ret' = <<>>
    /\ idx' = i
    /\ UNCHANGED df

\* The caller takes the returned frame and goes on to its next call.
Resume ==
    /\ pc = "returned"
    /\ pc' = "main"
    /\ exc' = "none"
    /\ idx' = 0
    /\ top_n' = 1
    /\ mdf' = <<>>
    /\ ret' = <<>>
    /\ UNCHANGED df

Next ==
    \/ \E i \in Indexes : TencandReturn(i)
    \/ \E i \in Indexes : TencandRaise(i)
    \/ Resume

Spec == Init /\ [][Next]_vars

(* --------------------------- claim helpers ---------------------------- *)

Returned == pc = "returned"

Called == pc \in {"returned", "raised"}

InRange == idx \in 0..(Len(df) - 1)

TargetId == df[idx + 1].Geneid

\* The rows that survived the self-pair filter of the call just made.
Kept == mdf

RetRows == {ret[j].row : j \in 1..Len(ret)}

\* The entries of Kept the call left out.
LeftOut == {Kept[j] : j \in {q \in 1..Len(Kept) : Kept[q].row \notin RetRows}}

(* ------------------------------ claims -------------------------------- *)

\* C1: a returned sequence is no longer than top_n and no longer than the
\* row count minus one.
C1_Length ==
    Returned => Len(ret) <= top_n /\ Len(ret) <= Len(df) - 1

C1_Witness ==
    Returned /\ top_n >= 2 /\ Len(ret) = top_n /\ Len(ret) = Len(df) - 1

\* C2: no returned ID ends with "/" and the target's Geneid, and no row whose
\* Geneid is the target's appears in the result, duplicates included.
C2_NoSelfPair ==
    Returned =>
        /\ \A j \in 1..Len(ret) : ~endswith(ret[j].ID, <<Slash>> \o TargetId)
        /\ \A p \in 1..Len(df) : df[p].Geneid = TargetId => (p - 1) \notin RetRows

C2_Witness ==
    /\ Returned
    /\ Len(ret) >= 1
    /\ \E p \in 1..Len(df) : p # idx + 1 /\ df[p].Geneid = TargetId

\* C3: the returned sequence ascends by ndiv: of two entries that are not NaN
\* the later one is not smaller, and no NaN entry precedes one that is not NaN.
C3_Sorted ==
    Returned =>
        \A j, k \in 1..Len(ret) : j < k =>
            /\ ret[j].ndiv.k = "nan" => ret[k].ndiv.k = "nan"
            /\ (ret[j].ndiv.k # "nan" /\ ret[k].ndiv.k # "nan")
                   => ~ScoreLess(ret[k].ndiv, ret[j].ndiv)

C3_Witness ==
    /\ Returned
    /\ Len(ret) = 2
    /\ ret[1].ndiv.k = "fin" /\ ret[2].ndiv.k = "fin"
    /\ ScoreLess(ret[1].ndiv, ret[2].ndiv)
    /\ ret[1].row > ret[2].row

\* C4: the result is min(top_n, kept) of the kept candidates, and no kept
\* candidate left out has a smaller ndiv than a returned one: a left-out
\* candidate whose ndiv is not NaN faces only returned entries that are not
\* NaN and not larger.
C4_TopN ==
    Returned =>
        LET kept == Kept
            out == {kept[q] : q \in {q \in 1..Len(kept) : kept[q].row \notin RetRows}}
        IN  /\ Len(ret) = Min(top_n, Len(kept))
            /\ \A j \in 1..Len(ret) : \E q \in 1..Len(kept) : ret[j] = kept[q]
            /\ \A j, k \in 1..Len(ret) : j # k => ret[j].row # ret[k].row
            /\ \A c \in out : \A j \in 1..Len(ret) :
                   c.ndiv.k # "nan" =>
                       /\ ret[j].ndiv.k # "nan"
                       /\ ~ScoreLess(c.ndiv, ret[j].ndiv)

C4_Witness ==
    /\ Returned
    /\ Len(ret) = 1
    /\ \E c \in LeftOut : c.row < ret[1].row /\ ScoreLess(ret[1].ndiv, c.ndiv)

\* C5 as stated: when top_n exceeds the number of candidates whose Geneid
\* differs from the target's, exactly row count - 1 entries are returned.
C5_Original ==
    Returned =>
        (top_n > Cardinality({p \in 1..Len(df) : df[p].Geneid # TargetId})
            => Len(ret) = Len(df) - 1)

\* C5 amended: when top_n is at least the number of rows the self-pair
\* filter keeps, exactly those rows are returned, no more and no fewer; that
\* is row count - 1 entries exactly when the target's row is the only one
\* whose ID ends with "/" and the target's Geneid.
C5_AllKept ==
    Returned =>
        LET removed == {p \in 1..Len(df) :
                           endswith(id_pair(TargetId, df[p].Geneid),
                                    <<Slash>> \o TargetId)}
        IN  top_n >= Len(df) - Cardinality(removed) =>
                /\ Len(ret) = Len(df) - Cardinality(removed)
                /\ RetRows = {p - 1 : p \in (1..Len(df)) \ removed}
                /\ (Len(ret) = Len(df) - 1) <=> (removed = {idx + 1})

C5_Witness ==
    /\ Returned
    /\ top_n > Len(ret)
    /\ Len(ret) >= 1
    /\ Len(ret) < Len(df) - 1

\* C6 as stated: a call with idx outside 0..row count - 1 fails with an
\* IndexError, and a call with idx inside does not.
C6_Original ==
    Called =>
        /\ ~InRange => (pc = "raised" /\ exc = "IndexError")
        /\ InRange => exc # "IndexError"

\* C6 amended: a call with idx outside 0..row count - 1 fails with a KeyError
\* (the row is looked up by label) and returns nothing, and a call with idx
\* inside that range returns without an exception.
C6_KeyError ==
    Called =>
        /\ ~InRange => (pc = "raised" /\ exc = "KeyError" /\ ret = <<>>)
        /\ InRange => (pc = "returned" /\ exc = "none")

C6_Witness == pc = "raised" /\ exc = "KeyError" /\ idx < 0

\* C7: no step changes the table.
C7_TableImmutable == [][df' = df]_vars

C7_Witness == Returned /\ Len(Kept) < Len(df) /\ Len(ret) >= 1 /\ Len(df) = MaxRows

\* C8 as stated: a call whose candidates have NaN or infinite scores returns
\* min(top_n, kept) entries, and every entry whose ndiv is NaN or infinite
\* comes after every entry whose ndiv is finite.
C8_Original ==
    Returned =>
        /\ Len(ret) = Min(top_n, Len(Kept))
        /\ \A j, k \in 1..Len(ret) :
               (ret[j].ndiv.k # "fin" /\ ret[k].ndiv.k = "fin") => k < j

\* C8 amended: a call with idx in range never fails, whatever the scores; it
\* returns min(top_n, kept) entries; every NaN entry comes after every entry
\* that is not NaN, every +Infinity entry after every finite one, and every
\* -Infinity entry before every finite one.
C8_Degenerate ==
    /\ (pc = "raised" => ~InRange)
    /\ Returned =>
        /\ Len(ret) = Min(top_n, Len(Kept))
        /\ \A j, k \in 1..Len(ret) :
               /\ (ret[j].ndiv.k = "nan" /\ ret[k].ndiv.k # "nan") => k < j
               /\ (ret[j].ndiv.k = "pinf" /\ ret[k].ndiv.k = "fin") => k < j
               /\ (ret[j].ndiv.k = "ninf" /\ ret[k].ndiv.k = "fin") => j < k

C8_Witness ==
    /\ Returned
    /\ Len(ret) = 2
    /\ ret[1].ndiv.k = "pinf"
    /\ ret[2].ndiv.k = "nan"
    /\ ret[1].row > ret[2].row

\* C9: with top_n large enough to return every kept row, a row is missing
\* from the result exactly when its Geneid equals the target's.
C9_FilterIffEqual ==
    (Returned /\ top_n >= Len(df)) =>
        \A p \in 1..Len(df) :
            ((p - 1) \notin RetRows) <=> (df[p].Geneid = TargetId)

====
